---- MODULE Spec2Model ----
(***************************************************************************)
(* Smart lock firmware (src/main/main.c): challenge-response               *)
(* authentication over HTTP, lock flag and status LED.                     *)
(*                                                                         *)
(* Strings are sequences of byte codes; C buffers are fixed-length         *)
(* sequences in which a 0 byte ends the string.  The HTTP server runs its  *)
(* handlers on one task, one request at a time; requests of other clients  *)
(* wait in `pending` until the running handler returns.                    *)
(* The LED driver calls are taken to succeed (ESP_ERROR_CHECK aborts the   *)
(* firmware otherwise).  The root page handler touches no state and is     *)
(* left out.                                                               *)
(***************************************************************************)
EXTENDS Integers, Sequences, FiniteSets, TLC

(* ------------------------------ bounds -------------------------------- *)
\* number of clients that can have a request waiting
NumClients == 2
\* granularity of the clock during vTaskDelay, in milliseconds
TickMs == 1000

Clients == 1..NumClients

(* ------------------------- program constants -------------------------- *)
KEY_BUF_SIZE == 32
CHALLENGE_BUF_SIZE == 64
RESP_BUF_SIZE == 64
EXPECTED_BUF_SIZE == 128
HOLD_MS == 4000
HTTPD_SOCK_ERR_FAIL == -1

HTTP_200 == 200
HTTP_400 == 400
HTTP_401 == 401

LED_OFF == <<0, 0, 0>>
RED == <<255, 0, 0>>
GREEN == <<0, 255, 0>>
BLUE == <<0, 0, 255>>

\* values esp_random() returns in the model: a uint32_t is written as its
\* two 16-bit halves <<high, low>> (0 and 4294967295 here, the shortest and
\* the longest challenge text)
RandVals == {<<0, 0>>, <<65535, 65535>>}

(* ------------------------------ strings ------------------------------- *)
Min(a, b) == IF a < b THEN a ELSE b

Zeros(n) == [i \in 1..n |-> 0]

\* "DEFAULT_KEY"
DEFAULT_KEY == <<68, 69, 70, 65, 85, 76, 84, 95, 75, 69, 89>>
\* "WRONGKEY"
WRONGKEY == <<87, 82, 79, 78, 71, 75, 69, 89>>

\* the C string held in a buffer: the bytes before the first 0 byte
RECURSIVE CStrFrom(_, _)
CStrFrom(buf, i) ==
  IF i > Len(buf) \/ buf[i] = 0 THEN <<>>
  ELSE <<buf[i]>> \o CStrFrom(buf, i + 1)

CStr(buf) == CStrFrom(buf, 1)

\* quotient and remainder of a 32-bit value <<high, low>> divided by 10
Div10(n) ==
  LET t == (n[1] % 10) * 65536 + n[2]
  IN [quot |-> <<n[1] \div 10, t \div 10>>, rem |-> t % 10]

\* printf("%u"): decimal digits of an unsigned value, most significant first
RECURSIVE FormatU(_)
FormatU(n) ==
  IF n[1] = 0 /\ n[2] < 10 THEN <<48 + n[2]>>
  ELSE FormatU(Div10(n).quot) \o <<48 + Div10(n).rem>>

\* snprintf(buf, size, ...) of the formatted text str: at most size-1 bytes
\* of it, then a 0 byte; the rest of the buffer keeps what it held.
Snprintf(buf, size, str) ==
  LET k == Min(Len(str), size - 1)
  IN [i \in 1..Len(buf) |->
        IF i <= k THEN str[i] ELSE IF i = k + 1 THEN 0 ELSE buf[i]]

\* strcmp: bytewise, stops at the first difference or at the 0 byte
RECURSIVE StrcmpFrom(_, _, _)
StrcmpFrom(a, b, i) ==
  IF a[i] # b[i] THEN a[i] - b[i]
  ELSE IF a[i] = 0 THEN 0
  ELSE StrcmpFrom(a, b, i + 1)

strcmp(a, b) == StrcmpFrom(a, b, 1)

(* ------------------------------- state -------------------------------- *)
VARIABLES
  main_pc,            \* position of app_main
  led_strip,          \* TRUE when the LED strip handle is not NULL
  led,                \* colour shown by pixel 0, <<r, g, b>>
  server,             \* TRUE when the HTTP server is started
  pre_shared_key,     \* char pre_shared_key[32]
  current_challenge,  \* char current_challenge[64]
  lock_is_open,       \* bool lock_is_open
  pc,                 \* position of the HTTP server task inside a handler
  elapsed,            \* milliseconds spent in vTaskDelay
  pending,            \* per client: the request waiting to be served
  req,                \* the request being served, or the last one served
  redeemed,           \* history: what happened to the stored challenge
  superseded          \* history: challenges overwritten before any attempt

vars == <<main_pc, led_strip, led, server, pre_shared_key, current_challenge,
          lock_is_open, pc, elapsed, pending, req, redeemed, superseded>>

NoReq == [op |-> "none", payload |-> <<>>, recv_len |-> 0, status |-> 0,
          prior |-> "none", was_open |-> FALSE]

Init ==
  /\ main_pc = "boot"
  /\ led_strip = FALSE
  /\ led = LED_OFF
  /\ server = FALSE
  /\ pre_shared_key = DEFAULT_KEY \o Zeros(KEY_BUF_SIZE - Len(DEFAULT_KEY))
  /\ current_challenge = Zeros(CHALLENGE_BUF_SIZE)
  /\ lock_is_open = FALSE
  /\ pc = "idle"
  /\ elapsed = 0
  /\ pending = [c \in Clients |-> "none"]
  /\ req = NoReq
  /\ redeemed = "none"
  /\ superseded = {}

(* ------------------------------ startup ------------------------------- *)
\* set_led_color: writes pixel 0 when the strip handle is set
set_led_color(r, g, b) == IF led_strip THEN <<r, g, b>> ELSE led

\* variant: app_main configures the strip and never sets the first colour
AppMainLed_noled ==
  /\ main_pc = "boot"
  /\ led_strip' = TRUE
  /\ main_pc' = "led_ready"
  /\ UNCHANGED <<led, server, pre_shared_key, current_challenge, lock_is_open,
                 pc, elapsed, pending, req, redeemed, superseded>>

\* app_main: configure_led_strip() then set_led_color(255, 0, 0)
AppMainLed ==
  /\ main_pc = "boot"
  /\ led_strip' = TRUE
  /\ led' = RED
  /\ main_pc' = "led_ready"
  /\ UNCHANGED <<server, pre_shared_key, current_challenge, lock_is_open,
                 pc, elapsed, pending, req, redeemed, superseded>>

\* app_main: wifi_init_softap() then start_webserver(); httpd_start may fail
StartWebserver ==
  /\ main_pc = "led_ready"
  /\ \E ok \in BOOLEAN :
       /\ server' = ok
       /\ main_pc' = IF ok THEN "running" ELSE "no_server"
  /\ UNCHANGED <<led_strip, led, pre_shared_key, current_challenge,
                 lock_is_open, pc, elapsed, pending, req, redeemed,
                 superseded>>

(* ------------------------------ clients ------------------------------- *)
\* a client sends a request; it waits until the server task takes it
Arrive(c) ==
  /\ server
  /\ pending[c] = "none"
  /\ \E uri \in {"GET /challenge", "POST /response"} :
       pending' = [pending EXCEPT ![c] = uri]
  /\ UNCHANGED <<main_pc, led_strip, led, server, pre_shared_key,
                 current_challenge, lock_is_open, pc, elapsed, req,
                 redeemed, superseded>>

(* ------------------------- GET /challenge ----------------------------- *)
\* variant: issuing a challenge also re-locks
get_challenge_handler_relock(c) ==
  /\ server
  /\ pc = "idle"
  /\ pending[c] = "GET /challenge"
  /\ \E rand_val \in RandVals :
       /\ current_challenge' =
            Snprintf(current_challenge, CHALLENGE_BUF_SIZE, FormatU(rand_val))
       /\ req' = [op |-> "issue", payload |-> FormatU(rand_val),
                  recv_len |-> 0, status |-> HTTP_200, prior |-> redeemed,
                  was_open |-> lock_is_open]
  /\ superseded' = IF redeemed = "fresh"
                   THEN superseded \cup {CStr(current_challenge)}
                   ELSE superseded
  /\ redeemed' = "fresh"
  /\ pending' = [pending EXCEPT ![c] = "none"]
  /\ lock_is_open' = FALSE
  /\ led' = set_led_color(255, 0, 0)
  /\ UNCHANGED <<main_pc, led_strip, server, pre_shared_key, pc, elapsed>>

\* variant: the handler runs on a task of its own, also while another
\* handler is blocked
get_challenge_handler_anytime(c) ==
  /\ server
  /\ pending[c] = "GET /challenge"
  /\ \E rand_val \in RandVals :
       /\ current_challenge' =
            Snprintf(current_challenge, CHALLENGE_BUF_SIZE, FormatU(rand_val))
       /\ req' = [op |-> "issue", payload |-> FormatU(rand_val),
                  recv_len |-> 0, status |-> HTTP_200, prior |-> redeemed,
                  was_open |-> lock_is_open]
  /\ superseded' = IF redeemed = "fresh"
                   THEN superseded \cup {CStr(current_challenge)}
                   ELSE superseded
  /\ redeemed' = "fresh"
  /\ pending' = [pending EXCEPT ![c] = "none"]
  /\ UNCHANGED <<main_pc, led_strip, led, server, pre_shared_key,
                 lock_is_open, pc, elapsed>>

\* variant: the challenge text is printed into the key buffer as well
get_challenge_handler_keybuf(c) ==
  /\ server
  /\ pc = "idle"
  /\ pending[c] = "GET /challenge"
  /\ \E rand_val \in RandVals :
       /\ current_challenge' =
            Snprintf(current_challenge, CHALLENGE_BUF_SIZE, FormatU(rand_val))
       /\ req' = [op |-> "issue", payload |-> FormatU(rand_val),
                  recv_len |-> 0, status |-> HTTP_200, prior |-> redeemed,
                  was_open |-> lock_is_open]
  /\ superseded' = IF redeemed = "fresh"
                   THEN superseded \cup {CStr(current_challenge)}
                   ELSE superseded
  /\ redeemed' = "fresh"
  /\ pending' = [pending EXCEPT ![c] = "none"]
  /\ pre_shared_key' = Snprintf(pre_shared_key, KEY_BUF_SIZE,
                                CStr(current_challenge'))
  /\ UNCHANGED <<main_pc, led_strip, led, server, lock_is_open, pc, elapsed>>

get_challenge_handler(c) ==
  /\ server
  /\ pc = "idle"
  /\ pending[c] = "GET /challenge"
  /\ \E rand_val \in RandVals :
       /\ current_challenge' =
            Snprintf(current_challenge, CHALLENGE_BUF_SIZE, FormatU(rand_val))
       /\ req' = [op |-> "issue", payload |-> FormatU(rand_val),
                  recv_len |-> 0, status |-> HTTP_200, prior |-> redeemed,
                  was_open |-> lock_is_open]
  /\ superseded' = IF redeemed = "fresh"
                   THEN superseded \cup {CStr(current_challenge)}
                   ELSE superseded
  /\ redeemed' = "fresh"
  /\ pending' = [pending EXCEPT ![c] = "none"]
  /\ UNCHANGED <<main_pc, led_strip, led, server, pre_shared_key,
                 lock_is_open, pc, elapsed>>

(* ------------------------- POST /response ----------------------------- *)
\* variant: the bound test written with > instead of >=
TooLong_gt(total_len) == total_len > RESP_BUF_SIZE

\* total_len >= sizeof(resp_buf)
TooLong(total_len) == total_len >= RESP_BUF_SIZE

\* values httpd_req_recv(req, resp_buf, total_len) can return: an error
\* code, 0 when the peer closed the connection or sent no body, or the
\* number of bytes read, which may be fewer than asked for
RecvResults(total_len) ==
  {HTTPD_SOCK_ERR_FAIL, 0} \cup ({1, total_len - 1, total_len} \cap 1..total_len)

\* variant: only error codes are treated as a failed receive
RecvFailed_lt(recv_len) == recv_len < 0

\* recv_len <= 0
RecvFailed(recv_len) == recv_len <= 0

\* resp_buf after the receive and resp_buf[recv_len] = '\0' (the bytes
\* behind the terminator are never read)
RespBuf(payload, recv_len) == SubSeq(payload, 1, recv_len) \o <<0>>

\* variant: expected declared with the size of the key buffer
Expected_small ==
  Snprintf(Zeros(KEY_BUF_SIZE), KEY_BUF_SIZE,
           CStr(current_challenge) \o CStr(pre_shared_key))

\* snprintf(expected, sizeof(expected), "%s%s", current_challenge,
\* pre_shared_key)
Expected ==
  Snprintf(Zeros(EXPECTED_BUF_SIZE), EXPECTED_BUF_SIZE,
           CStr(current_challenge) \o CStr(pre_shared_key))

\* variant: the result of strcmp tested with <= 0
TokenMatches_le(resp_buf, expected) == strcmp(resp_buf, expected) <= 0

\* strcmp(resp_buf, expected) == 0
TokenMatches(resp_buf, expected) == strcmp(resp_buf, expected) = 0

ToLower(s) == [i \in 1..Len(s) |-> IF s[i] >= 65 /\ s[i] <= 90 THEN s[i] + 32 ELSE s[i]]

Fill(n) == [i \in 1..n |-> 120]

\* request bodies a client may send in the current state
Payloads ==
  LET chal == CStr(current_challenge)
      key == CStr(pre_shared_key)
      e == chal \o key
  IN {e, key, chal \o WRONGKEY, e \o <<0, 120>>, ToLower(e), e \o <<120>>,
      <<>>, Fill(RESP_BUF_SIZE), Fill(RESP_BUF_SIZE + 1)}
     \cup {s \o key : s \in superseded}

NewReq(payload, recv_len, status) ==
  [op |-> "verify", payload |-> payload, recv_len |-> recv_len,
   status |-> status, prior |-> redeemed, was_open |-> lock_is_open]

\* httpd_resp_send_err(req, HTTPD_400_BAD_REQUEST, ...); return ESP_FAIL
Reply400(payload, recv_len) ==
  /\ req' = NewReq(payload, recv_len, HTTP_400)
  /\ UNCHANGED <<led, current_challenge, lock_is_open, pc, elapsed, redeemed>>

\* variant: the accepted branch forgets to set lock_is_open
Unlock_noflag(payload, recv_len) ==
  /\ led' = set_led_color(0, 255, 0)
  /\ req' = [op |-> "verify", payload |-> payload, recv_len |-> recv_len,
             status |-> HTTP_200, prior |-> redeemed, was_open |-> lock_is_open]
  /\ redeemed' = IF redeemed = "none" THEN "none" ELSE "accepted"
  /\ UNCHANGED <<current_challenge, lock_is_open, pc, elapsed>>

\* variant: the accepted branch forgets to set the LED
Unlock_noled(payload, recv_len) ==
  /\ lock_is_open' = TRUE
  /\ req' = [op |-> "verify", payload |-> payload, recv_len |-> recv_len,
             status |-> HTTP_200, prior |-> redeemed, was_open |-> lock_is_open]
  /\ redeemed' = IF redeemed = "none" THEN "none" ELSE "accepted"
  /\ UNCHANGED <<led, current_challenge, pc, elapsed>>

\* lock_is_open = true; set_led_color(0, 255, 0); sendstr "Unlocked"
Unlock(payload, recv_len) ==
  /\ lock_is_open' = TRUE
  /\ led' = set_led_color(0, 255, 0)
  /\ req' = NewReq(payload, recv_len, HTTP_200)
  /\ redeemed' = IF redeemed = "none" THEN "none" ELSE "accepted"
  /\ UNCHANGED <<current_challenge, pc, elapsed>>

\* variant: the rejected branch sets lock_is_open = true
InvalidToken_unlocks(payload, recv_len) ==
  /\ led' = set_led_color(0, 0, 255)
  /\ lock_is_open' = TRUE
  /\ req' = [op |-> "verify", payload |-> payload, recv_len |-> recv_len,
             status |-> 0, prior |-> redeemed, was_open |-> lock_is_open]
  /\ redeemed' = IF redeemed = "none" THEN "none" ELSE "rejected"
  /\ pc' = "send_401"
  /\ UNCHANGED <<current_challenge, elapsed>>

\* variant: the rejected branch clears lock_is_open before the delay
InvalidToken_relocks(payload, recv_len) ==
  /\ led' = set_led_color(0, 0, 255)
  /\ lock_is_open' = FALSE
  /\ req' = [op |-> "verify", payload |-> payload, recv_len |-> recv_len,
             status |-> 0, prior |-> redeemed, was_open |-> lock_is_open]
  /\ redeemed' = IF redeemed = "none" THEN "none" ELSE "rejected"
  /\ pc' = "send_401"
  /\ UNCHANGED <<current_challenge, elapsed>>

\* set_led_color(0, 0, 255), the reply is sent next
InvalidToken(payload, recv_len) ==
  /\ led' = set_led_color(0, 0, 255)
  /\ req' = NewReq(payload, recv_len, 0)
  /\ redeemed' = IF redeemed = "none" THEN "none" ELSE "rejected"
  /\ pc' = "send_401"
  /\ UNCHANGED <<current_challenge, lock_is_open, elapsed>>

\* variant: an open lock answers "Unlocked" without comparing
post_response_handler_openskip(c) ==
  /\ server
  /\ pc = "idle"
  /\ pending[c] = "POST /response"
  /\ pending' = [pending EXCEPT ![c] = "none"]
  /\ \E payload \in Payloads :
       LET total_len == Len(payload)
       IN IF TooLong(total_len)
          THEN Reply400(payload, 0)
          ELSE \E recv_len \in RecvResults(total_len) :
                 IF RecvFailed(recv_len)
                 THEN Reply400(payload, recv_len)
                 ELSE IF lock_is_open
                         \/ TokenMatches(RespBuf(payload, recv_len), Expected)
                      THEN Unlock(payload, recv_len)
                      ELSE InvalidToken(payload, recv_len)
  /\ UNCHANGED <<main_pc, led_strip, server, pre_shared_key, superseded>>

post_response_handler(c) ==
  /\ server
  /\ pc = "idle"
  /\ pending[c] = "POST /response"
  /\ pending' = [pending EXCEPT ![c] = "none"]
  /\ \E payload \in Payloads :
       LET total_len == Len(payload)
       IN IF TooLong(total_len)
          THEN Reply400(payload, 0)
          ELSE \E recv_len \in RecvResults(total_len) :
                 IF RecvFailed(recv_len)
                 THEN Reply400(payload, recv_len)
                 ELSE IF TokenMatches(RespBuf(payload, recv_len), Expected)
                      THEN Unlock(payload, recv_len)
                      ELSE InvalidToken(payload, recv_len)
  /\ UNCHANGED <<main_pc, led_strip, server, pre_shared_key, superseded>>

\* httpd_resp_send_err(req, HTTPD_401_UNAUTHORIZED, "Invalid token")
SendErr401 ==
  /\ pc = "send_401"
  /\ req' = [req EXCEPT !.status = HTTP_401]
  /\ elapsed' = 0
  /\ pc' = "delay"
  /\ UNCHANGED <<main_pc, led_strip, led, server, pre_shared_key,
                 current_challenge, lock_is_open, pending, redeemed,
                 superseded>>

\* variant: a delay of 400 ms
DelayPending_short(ms) == ms < 400

\* the task is still blocked: elapsed < pdMS_TO_TICKS(4000)
DelayPending(ms) == ms < HOLD_MS

\* vTaskDelay(pdMS_TO_TICKS(4000)): time passes while the task is blocked
vTaskDelay ==
  /\ pc = "delay"
  /\ DelayPending(elapsed)
  /\ elapsed' = elapsed + TickMs
  /\ UNCHANGED <<main_pc, led_strip, led, server, pre_shared_key,
                 current_challenge, lock_is_open, pc, pending, req, redeemed,
                 superseded>>

\* variant: the rejected branch forgets to clear lock_is_open
Relock_noflag ==
  /\ pc = "delay"
  /\ ~DelayPending(elapsed)
  /\ pc' = "set_red"
  /\ UNCHANGED <<main_pc, led_strip, led, server, pre_shared_key,
                 current_challenge, lock_is_open, elapsed, pending, req,
                 redeemed, superseded>>

\* lock_is_open = false, once the delay is over
Relock ==
  /\ pc = "delay"
  /\ ~DelayPending(elapsed)
  /\ lock_is_open' = FALSE
  /\ pc' = "set_red"
  /\ UNCHANGED <<main_pc, led_strip, led, server, pre_shared_key,
                 current_challenge, elapsed, pending, req, redeemed,
                 superseded>>

\* variant: the rejected branch returns without setting the LED
SetRed_noled ==
  /\ pc = "set_red"
  /\ pc' = "idle"
  /\ elapsed' = 0
  /\ UNCHANGED <<main_pc, led_strip, led, server, pre_shared_key,
                 current_challenge, lock_is_open, pending, req,
                 redeemed, superseded>>

\* set_led_color(255, 0, 0); return ESP_OK (the delay is over, its clock is
\* cleared)
SetRed ==
  /\ pc = "set_red"
  /\ led' = set_led_color(255, 0, 0)
  /\ pc' = "idle"
  /\ elapsed' = 0
  /\ UNCHANGED <<main_pc, led_strip, server, pre_shared_key,
                 current_challenge, lock_is_open, pending, req,
                 redeemed, superseded>>

(* --------------------------- specification ---------------------------- *)
Next ==
  \/ AppMainLed
  \/ StartWebserver
  \/ \E c \in Clients : Arrive(c)
  \/ \E c \in Clients : get_challenge_handler(c)
  \/ \E c \in Clients : post_response_handler(c)
  \/ SendErr401
  \/ vTaskDelay
  \/ Relock
  \/ SetRed

Spec == Init /\ [][Next]_vars

\* The server task is scheduled: a handler that has started runs to its end,
\* the FreeRTOS tick advances during vTaskDelay, and app_main runs on.
\* Nothing obliges a client to send a request or the server to be reachable.
FairSpec ==
  /\ Spec
  /\ WF_vars(AppMainLed)
  /\ WF_vars(StartWebserver)
  /\ WF_vars(SendErr401)
  /\ WF_vars(vTaskDelay)
  /\ WF_vars(Relock)
  /\ WF_vars(SetRed)

TypeOK ==
  /\ main_pc \in {"boot", "led_ready", "running", "no_server"}
  /\ led \in {LED_OFF, RED, GREEN, BLUE}
  /\ Len(current_challenge) = CHALLENGE_BUF_SIZE
  /\ Len(pre_shared_key) = KEY_BUF_SIZE
  /\ lock_is_open \in BOOLEAN
  /\ pc \in {"idle", "send_401", "delay", "set_red"}
  /\ req.status \in {0, HTTP_200, HTTP_400, HTTP_401}
  /\ redeemed \in {"none", "fresh", "accepted", "rejected"}

(* ------------------- lengths of challenge and token ------------------- *)
\* a value below 2^31 as the two 16-bit halves of a uint32_t
U32(n) == <<n \div 65536, n % 65536>>

\* esp_random() results at the edges of every digit count and of the 16-bit
\* halves, up to 4294967295
EdgeVals ==
  {U32(0), U32(9), U32(10), U32(99), U32(100), U32(999), U32(1000),
   U32(9999), U32(10000), U32(65535), U32(65536), U32(99999), U32(100000),
   U32(999999), U32(1000000), U32(9999999), U32(10000000), U32(99999999),
   U32(100000000), U32(999999999), U32(1000000000), U32(2147483647),
   <<32768, 0>>, <<61035, 10240>>, <<65535, 0>>, <<65535, 65535>>}

\* pre_shared_key[32] holding a key of len characters and its terminator
KeyBuf(len) == [i \in 1..KEY_BUF_SIZE |-> IF i <= len THEN 65 + (i % 26) ELSE 0]

\* every key length the buffer can hold with the terminating 0 byte
KeyLens == 0..(KEY_BUF_SIZE - 1)

\* the firmware running with any provisioned key, no request served yet
LenInit ==
  /\ main_pc = "running"
  /\ led_strip = TRUE
  /\ led = RED
  /\ server = TRUE
  /\ pre_shared_key \in {KeyBuf(len) : len \in KeyLens}
  /\ current_challenge = Zeros(CHALLENGE_BUF_SIZE)
  /\ lock_is_open = FALSE
  /\ pc = "idle"
  /\ elapsed = 0
  /\ pending = [c \in Clients |-> "none"]
  /\ req = NoReq
  /\ redeemed = "none"
  /\ superseded = {}

\* get_challenge_handler with esp_random() drawn from EdgeVals
LenIssue ==
  /\ pc = "idle"
  /\ req.op = "none"
  /\ \E rand_val \in EdgeVals :
       /\ current_challenge' =
            Snprintf(current_challenge, CHALLENGE_BUF_SIZE, FormatU(rand_val))
       /\ req' = [op |-> "issue", payload |-> FormatU(rand_val),
                  recv_len |-> 0, status |-> HTTP_200, prior |-> redeemed,
                  was_open |-> lock_is_open]
  /\ redeemed' = "fresh"
  /\ UNCHANGED <<main_pc, led_strip, led, server, pre_shared_key,
                 lock_is_open, pc, elapsed, pending, superseded>>

\* post_response_handler on the correct response to the stored challenge,
\* received whole
LenVerify ==
  /\ pc = "idle"
  /\ req.op = "issue"
  /\ LET payload == CStr(current_challenge) \o CStr(pre_shared_key)
         total_len == Len(payload)
     IN IF TooLong(total_len)
        THEN Reply400(payload, 0)
        ELSE IF RecvFailed(total_len)
             THEN Reply400(payload, total_len)
             ELSE IF TokenMatches(RespBuf(payload, total_len), Expected)
                  THEN Unlock(payload, total_len)
                  ELSE InvalidToken(payload, total_len)
  /\ UNCHANGED <<main_pc, led_strip, server, pre_shared_key, pending,
                 superseded>>

LenNext == LenIssue \/ LenVerify

LenSpec == LenInit /\ [][LenNext]_vars

(* ------------------------------ claims -------------------------------- *)
\* the secret and the stored challenge as strings
Secret == CStr(pre_shared_key)
Outstanding == CStr(current_challenge)
Concatenate(c, s) == c \o s

\* a POST /response has been answered and is the latest request served
Replied == req.op = "verify" /\ req.status # 0
\* httpd_req_recv delivered the whole body
Complete == req.recv_len = Len(req.payload)
\* the step in which the server task enters post_response_handler
VerifyCall ==
  /\ pc = "idle"
  /\ \E c \in Clients : pending[c] = "POST /response" /\ pending'[c] = "none"

\* C1: the first Verify(C+S) after Issue is Accepted, and a second Verify
\* with the same payload and no Issue in between is Rejected.
C1_SingleUse ==
  (Replied /\ Complete /\ req.payload = Concatenate(Outstanding, Secret))
    => /\ req.prior = "fresh" => req.status = HTTP_200
       /\ req.prior = "accepted" => req.status = HTTP_401

\* C2: after a Rejected attempt, Verify(C+S) with no new Issue in between
\* is Rejected as well.
C2_RejectedConsumes ==
  (Replied /\ Complete /\ req.prior = "rejected"
     /\ req.payload = Concatenate(Outstanding, Secret))
    => req.status = HTTP_401

\* C3: before any Issue, every Verify is Rejected or Malformed-input.
C3_NothingIssued ==
  (Replied /\ req.prior = "none") => req.status \in {HTTP_400, HTTP_401}

\* C4 as stated: Verify(oldC+S) is Rejected once a later Issue has
\* overwritten the unredeemed oldC.
C4_Original ==
  (Replied /\ Complete
     /\ \E oldC \in superseded : req.payload = Concatenate(oldC, Secret))
    => req.status = HTTP_401

\* C4 amended: Verify(oldC+S) is Rejected once a later Issue has overwritten
\* the unredeemed oldC with a different value, and a Verify is Accepted only
\* when the received string is the stored (latest) challenge followed by the
\* secret.
C4_Supersession ==
  /\ (Replied /\ Complete
        /\ \E oldC \in superseded :
             oldC # Outstanding /\ req.payload = Concatenate(oldC, Secret))
       => req.status = HTTP_401
  /\ (Replied /\ req.status = HTTP_200)
       => CStr(RespBuf(req.payload, req.recv_len))
            = Concatenate(Outstanding, Secret)

C4_Witness ==
  /\ Replied /\ Complete /\ req.status = HTTP_401
  /\ \E oldC \in superseded :
       oldC # Outstanding /\ req.payload = Concatenate(oldC, Secret)

\* C5: Verify is Accepted only when the payload is byte-for-byte the
\* outstanding challenge followed by the secret.
C5_ExactEquality ==
  (Replied /\ Complete /\ req.prior # "none" /\ req.status = HTTP_200)
    => req.payload = Concatenate(Outstanding, Secret)

\* C6: every payload shorter than the bound that differs from
\* Concatenate(outstandingChallenge, S) is Rejected.
C6_OthersRejected ==
  (Replied /\ Complete /\ req.prior # "none" /\ Len(req.payload) > 0
     /\ Len(req.payload) < RESP_BUF_SIZE
     /\ req.payload # Concatenate(Outstanding, Secret))
    => req.status = HTTP_401

\* C7: a payload of 64 bytes or more is answered 400 (not 401), nothing is
\* received or compared, challenge, lock flag and LED keep their values and
\* the handler returns without entering the delay.
C7_Oversized ==
  [][(VerifyCall /\ Len(req'.payload) >= RESP_BUF_SIZE)
       => /\ req'.status = HTTP_400
          /\ req'.status # HTTP_401
          /\ pc' = "idle"
          /\ UNCHANGED <<current_challenge, lock_is_open, led, redeemed>>]_vars

C7_Witness ==
  /\ Replied /\ Len(req.payload) >= RESP_BUF_SIZE /\ req.status = HTTP_400
  /\ req.was_open /\ lock_is_open /\ led = GREEN /\ redeemed = "accepted"

\* C8: an empty or unreadable payload is answered 400, challenge, lock flag
\* and LED keep their values and the handler returns without entering the
\* delay.
C8_Absent ==
  [][(VerifyCall /\ Len(req'.payload) < RESP_BUF_SIZE
        /\ (Len(req'.payload) = 0 \/ req'.recv_len <= 0))
       => /\ req'.status = HTTP_400
          /\ pc' = "idle"
          /\ UNCHANGED <<current_challenge, lock_is_open, led, redeemed>>]_vars

C8_Witness ==
  /\ Replied /\ Len(req.payload) = 0 /\ req.status = HTTP_400
  /\ req.prior = "fresh" /\ redeemed = "fresh"

\* C9: when Verify is Accepted, on return the lock is open and the LED is
\* green, whatever the lock flag was before.
C9_AcceptedUnlocks ==
  [][(VerifyCall /\ req'.status = HTTP_200)
       => (pc' = "idle" /\ lock_is_open' /\ led' = GREEN)]_vars

C9_Witness ==
  /\ Replied /\ req.status = HTTP_200 /\ ~req.was_open
  /\ pc = "idle" /\ lock_is_open /\ led = GREEN

\* C10: when Verify is Rejected the LED turns blue at once, is blue for the
\* whole delay, the delay lasts the full hold duration, and when the handler
\* returns the lock is closed and the LED is red, from Locked and Unlocked
\* alike.
C10_RejectedHold ==
  [][/\ (VerifyCall /\ req'.status \notin {HTTP_200, HTTP_400}) => led' = BLUE
     /\ (pc \in {"send_401", "delay"}) => led = BLUE
     /\ (pc = "send_401" /\ pc' # "send_401")
          => (req'.status = HTTP_401 /\ pc' = "delay" /\ led' = BLUE)
     /\ (pc = "delay" /\ pc' # "delay") => elapsed >= HOLD_MS
     /\ (pc # "idle" /\ pc' = "idle")
          => (req.status = HTTP_401 /\ ~lock_is_open' /\ led' = RED)]_vars

C10_Witness ==
  /\ Replied /\ req.status = HTTP_401 /\ req.was_open
  /\ pc = "idle" /\ ~lock_is_open /\ led = RED

\* the step in which the server task enters get_challenge_handler
IssueCall ==
  /\ pc = "idle"
  /\ \E c \in Clients : pending[c] = "GET /challenge" /\ pending'[c] = "none"

\* C11: an Issue changes neither the lock flag nor the LED (nor the secret):
\* only the stored challenge gets the returned value, also when the call
\* follows another Issue directly, from Locked and from Unlocked.
C11_IssueFrame ==
  [][IssueCall
       => /\ UNCHANGED <<lock_is_open, led, pre_shared_key, pc>>
          /\ req'.op = "issue" /\ req'.status = HTTP_200
          /\ CStr(current_challenge') = req'.payload]_vars

C11_Witness ==
  /\ req.op = "issue" /\ req.prior = "fresh" /\ req.was_open
  /\ lock_is_open /\ led = GREEN

\* C12: while the rejected branch holds the server task, whatever requests
\* are waiting, no request is served: no Verify is answered 200, the stored
\* challenge keeps its value, and the LED is blue until the branch itself
\* sets it to red.
C12_HoldExclusive ==
  [][/\ (pc \in {"send_401", "delay"})
          => /\ led = BLUE /\ led' = BLUE
             /\ UNCHANGED current_challenge
             /\ req'.op = "verify" /\ req'.status # HTTP_200
             /\ req'.payload = req.payload /\ req'.recv_len = req.recv_len
     /\ (pc # "idle") => (UNCHANGED current_challenge /\ req'.status # HTTP_200)
     /\ (led = BLUE /\ led' # BLUE) => (pc = "set_red" /\ led' = RED)]_vars

C12_Witness ==
  /\ pc = "delay" /\ elapsed > 0 /\ led = BLUE
  /\ \A c \in Clients : pending[c] # "none"
  /\ \E c \in Clients : pending[c] = "GET /challenge"
  /\ \E c \in Clients : pending[c] = "POST /response"

\* C13: every entry into the rejected (blue) state is eventually followed
\* by the handler having returned with the lock closed and the LED red; no
\* step leaves the rejected branch any other way.
C13_HoldResolves ==
  /\ (pc = "send_401" /\ led = BLUE)
       ~> (pc = "idle" /\ ~lock_is_open /\ led = RED)
  /\ [][(pc = "send_401" => pc' \in {"send_401", "delay"})
        /\ (pc = "delay" => pc' \in {"delay", "set_red"})
        /\ (pc = "set_red" => pc' \in {"set_red", "idle"})]_vars

C13_Witness ==
  /\ pc = "idle" /\ req.op = "verify" /\ req.status = HTTP_401
  /\ ~lock_is_open /\ led = RED /\ redeemed = "rejected"

\* C14: when the server starts, and until the first request is served, the
\* lock is closed and the LED is red; nothing is served before that.
C14_StartupLocked ==
  /\ (server /\ req = NoReq) => (~lock_is_open /\ led = RED)
  /\ ~server => (req = NoReq /\ ~lock_is_open /\ pc = "idle"
                   /\ \A c \in Clients : pending[c] = "none")

C14_Witness ==
  /\ server /\ req = NoReq /\ ~lock_is_open /\ led = RED
  /\ \A c \in Clients : pending[c] # "none"

\* C15: the lock is closed at startup, opens only in a Verify answered 200,
\* and is closed when a rejected delay expires; Issue, 400 replies and
\* startup never open it.
C15_UnlockedOnlyByAccept ==
  /\ ~lock_is_open
  /\ [][/\ (~lock_is_open /\ lock_is_open')
             => (VerifyCall /\ req'.status = HTTP_200)
        /\ (pc = "delay" /\ pc' = "set_red") => ~lock_is_open'
        /\ (IssueCall \/ (VerifyCall /\ req'.status = HTTP_400)
              \/ main_pc' # main_pc)
             => UNCHANGED lock_is_open]_vars

C15_Witness ==
  /\ lock_is_open /\ Replied /\ req.status = HTTP_400 /\ req.was_open
  /\ redeemed = "fresh"

\* the reply as a function of the body, the receive result, the stored
\* challenge and the secret
OutcomeOf(payload, recv_len, challenge, key) ==
  IF Len(payload) >= RESP_BUF_SIZE \/ recv_len <= 0 THEN HTTP_400
  ELSE IF CStr(SubSeq(payload, 1, recv_len)) = CStr(challenge) \o CStr(key)
       THEN HTTP_200
       ELSE HTTP_401

\* C16: the reply to a Verify is determined by the payload (as received),
\* the stored challenge and the secret; the lock flag at the time of the
\* call has no part in it.
C16_OutcomeIgnoresAccess ==
  Replied => req.status = OutcomeOf(req.payload, req.recv_len,
                                    current_challenge, pre_shared_key)

C16_Witness ==
  /\ Replied /\ Complete /\ req.was_open /\ req.status = HTTP_401
  /\ req.prior = "accepted"

\* C17: the pre-shared key keeps its startup value.
C17_SecretFrame ==
  pre_shared_key = DEFAULT_KEY \o Zeros(KEY_BUF_SIZE - Len(DEFAULT_KEY))

C17_Witness ==
  /\ pc = "idle" /\ Replied /\ req.status = HTTP_200 /\ req.prior = "rejected"
  /\ pre_shared_key = DEFAULT_KEY \o Zeros(KEY_BUF_SIZE - Len(DEFAULT_KEY))

\* C18: once app_main has set the LED it is always red, green or blue; when
\* no rejected branch is running it is green exactly when the lock is open
\* and red exactly when it is closed; blue occurs only inside the rejected
\* branch (from its first LED write to its last).
C18_IndicatorAgrees ==
  /\ main_pc # "boot" => led \in {RED, GREEN, BLUE}
  /\ led = BLUE => pc \in {"send_401", "delay", "set_red"}
  /\ (main_pc # "boot" /\ pc = "idle")
       => /\ led = GREEN <=> lock_is_open
          /\ led = RED <=> ~lock_is_open

C18_Witness ==
  /\ pc = "idle" /\ lock_is_open /\ led = GREEN
  /\ req.op = "issue" /\ req.prior = "accepted"

\* C19: a Verify rejected while the lock is open leaves it open, with the
\* LED blue, during the whole delay; the flag is cleared only when the delay
\* has expired.
C19_OpenDuringHold ==
  [][/\ (pc \in {"send_401", "delay"} /\ req.was_open)
          => (lock_is_open /\ led = BLUE)
     /\ (lock_is_open /\ ~lock_is_open')
          => (pc = "delay" /\ elapsed >= HOLD_MS /\ pc' = "set_red")]_vars

C19_Witness ==
  /\ pc = "delay" /\ elapsed >= HOLD_MS /\ req.was_open
  /\ lock_is_open /\ led = BLUE

\* C20: on a rejected Verify the steps are, in this order: LED blue, reply
\* 401, delay of 4000 ms, lock flag cleared, LED red; the reply is sent
\* while the LED is blue and before the flag is cleared.
C20_RejectOrder ==
  [][/\ (VerifyCall /\ pc' # "idle")
          => /\ pc' = "send_401" /\ led' = BLUE /\ req'.status = 0
             /\ UNCHANGED lock_is_open
     /\ (pc = "send_401" /\ pc' # pc)
          => /\ pc' = "delay" /\ req'.status = HTTP_401 /\ elapsed' = 0
             /\ led' = BLUE /\ UNCHANGED lock_is_open
     /\ (pc = "delay" /\ pc' = pc)
          => (UNCHANGED <<led, lock_is_open, req>> /\ elapsed' >= elapsed)
     /\ (pc = "delay" /\ pc' # pc)
          => /\ elapsed >= HOLD_MS /\ pc' = "set_red" /\ ~lock_is_open'
             /\ led' = BLUE /\ UNCHANGED req
     /\ (pc = "set_red" /\ pc' # pc)
          => (pc' = "idle" /\ led' = RED /\ ~lock_is_open')]_vars

C20_Witness ==
  /\ pc = "delay" /\ elapsed = 0 /\ req.status = HTTP_401 /\ led = BLUE
  /\ req.was_open /\ lock_is_open

\* C21: for every 32-bit challenge value and every key that fits the key
\* buffer, the challenge text has at most 10 characters and is stored whole,
\* the expected value (challenge then key) has at most 41 characters, is not
\* truncated by the 128-byte buffer and is shorter than the 64-byte bound,
\* so the correct response is not answered 400.
C21_TokenFits ==
  LET chal == CStr(current_challenge)
      key == CStr(pre_shared_key)
  IN /\ Len(chal) <= 10
     /\ req.op = "issue" => (chal = req.payload /\ Len(chal) >= 1)
     /\ Len(chal \o key) <= 41
     /\ CStr(Expected) = chal \o key
     /\ Len(chal \o key) < RESP_BUF_SIZE
     /\ (Replied /\ Complete /\ req.payload = chal \o key)
          => req.status = HTTP_200

C21_Witness ==
  /\ Replied /\ Complete /\ req.status = HTTP_200
  /\ Len(CStr(current_challenge)) = 10
  /\ Len(CStr(pre_shared_key)) = KEY_BUF_SIZE - 1
  /\ Len(req.payload) = 41

====
